---- MODULE Spec2Model ----
(***************************************************************************)
(* Model of the finance assistant: the query pipeline of app.py            *)
(* (validate_query, get_query_params, execute_query,                       *)
(* generate_final_response), the data helpers of prefilter.py and the      *)
(* Streamlit script of ui.py (sidebar login, session reset, chat turn).    *)
(*                                                                         *)
(* Conventions.                                                            *)
(*  - A Python value that may be None / NaN / a missing key is a sequence  *)
(*    of length 0 (None) or 1 (<<v>>).                                     *)
(*  - A Python str that the code inspects character by character (the      *)
(*    search terms, subheader, notes) is a sequence of one-character       *)
(*    strings.                                                             *)
(*  - The text of a collaborator reply is a sequence of tokens             *)
(*    [kind |-> "ws" | "fence_json" | "fence" | "text" | "json", ...].     *)
(*  - trx_date is a pandas Timestamp at midnight, held as the proleptic    *)
(*    Gregorian ordinal of its day; the ledger's dates are calendar dates. *)
(*    The dates of a filter specification are "YYYY-MM-DD" strings, held   *)
(*    as [y, m, d], and converted by ToTimestamp where pandas converts.    *)
(*  - The columns detail_information and debit_credit are only copied      *)
(*    into the sample and are left out of a row.                           *)
(*  - st.cache_data memoises validate_query, get_query_params,             *)
(*    generate_final_response and load_data by argument; the model lets    *)
(*    every call consult the collaborator, which covers every run of the   *)
(*    memoised code.                                                       *)
(***************************************************************************)
EXTENDS Integers, Sequences, FiniteSets, TLC

VARIABLES
    df,             \* execute_query's ledger argument (query pipeline)
    reply,          \* the collaborator's outcome for get_query_params
    params,         \* the filter specification returned by get_query_params
    context,        \* the result of execute_query
    stages,         \* relevant_df after each stage of execute_query
    pc,             \* position of the running script / pipeline
    cif_id,         \* the sidebar's text input
    session_state,  \* st.session_state, a dict whose keys appear over time
    prompt,         \* the chat input of the running turn
    validation,     \* validate_query's return value in the running turn
    full_response,  \* the assistant text of the running turn
    calls,          \* the pipeline functions called in the turn, with returns
    before,         \* the history when the turn's input was accepted
    outcome         \* how the last script run ended

vars == <<df, reply, params, context, stages, pc, cif_id, session_state,
          prompt, validation, full_response, calls, before, outcome>>

queryVars == <<df, reply, params, context, stages>>
uiVars == <<cif_id, session_state, prompt, validation, full_response, calls,
            before, outcome>>

----------------------------------------------------------------------------
(* Bounds *)

MaxCopies == 3
MaxTerms == 2
MaxMessages == 4

(* Program constants *)

SampleLimit == 10

----------------------------------------------------------------------------
(* Python values *)

None == <<>>
Some(v) == <<v>>

\* dict.get(key): the value, or None for a missing key (JSON null is None too)
Get(d, key) == IF key \in DOMAIN d THEN d[key] ELSE None

\* json.loads may return a value that is no dict (a JSON array)
JsonArray == [py_class |-> "list"]
IsDict(v) == "py_class" \notin DOMAIN v

RECURSIVE Repeat(_, _)
Repeat(s, k) == IF k = 0 THEN <<>> ELSE s \o Repeat(s, k - 1)

Min(a, b) == IF a < b THEN a ELSE b

----------------------------------------------------------------------------
(* Dates: "YYYY-MM-DD" compared with a Timestamp column *)

IsLeap(y) == (y % 4 = 0) /\ ((y % 100 # 0) \/ (y % 400 = 0))

DaysInMonth(y, m) ==
    IF m = 2 THEN (IF IsLeap(y) THEN 29 ELSE 28)
    ELSE IF m \in {4, 6, 9, 11} THEN 30 ELSE 31

RECURSIVE DaysBeforeMonth(_, _)
DaysBeforeMonth(y, m) ==
    IF m = 1 THEN 0 ELSE DaysBeforeMonth(y, m - 1) + DaysInMonth(y, m - 1)

DaysBeforeYear(y) ==
    365 * (y - 1) + ((y - 1) \div 4) - ((y - 1) \div 100) + ((y - 1) \div 400)

Date(y, m, d) == [y |-> y, m |-> m, d |-> d]

\* the Timestamp pandas makes of a "YYYY-MM-DD" string when it compares it
\* with the trx_date column
ToTimestamp(s) == DaysBeforeYear(s.y) + DaysBeforeMonth(s.y, s.m) + s.d

----------------------------------------------------------------------------
(* Text *)

Lower(c) == IF c = "A" THEN "a" ELSE IF c = "B" THEN "b" ELSE c

\* '|'.join(terms)
RECURSIVE Join(_)
Join(terms) ==
    IF terms = <<>> THEN <<>>
    ELSE IF Len(terms) = 1 THEN terms[1]
    ELSE terms[1] \o <<"|">> \o Join(Tail(terms))

\* the alternatives of a regular expression: the pieces between the '|'
RECURSIVE Alternatives(_)
Alternatives(pattern) ==
    IF \A i \in 1..Len(pattern) : pattern[i] # "|" THEN <<pattern>>
    ELSE LET k == CHOOSE i \in 1..Len(pattern) :
                      /\ pattern[i] = "|"
                      /\ \A j \in 1..(i - 1) : pattern[j] # "|"
         IN <<SubSeq(pattern, 1, k - 1)>>
                \o Alternatives(SubSeq(pattern, k + 1, Len(pattern)))

\* one pattern character against one text character, re.IGNORECASE:
\* '.' matches any character, every other character matches itself
CharMatches(p, c) == (p = ".") \/ (Lower(p) = Lower(c))

\* re.search of one alternative: it matches at some position of the text
AltFound(alt, text) ==
    \E start \in 0..(Len(text) - Len(alt)) :
        \A i \in 1..Len(alt) : CharMatches(alt[i], text[start + i])

\* re.search(pattern, text, re.IGNORECASE) is not None
RegexSearch(pattern, text) ==
    LET alts == Alternatives(pattern)
    IN \E a \in 1..Len(alts) : AltFound(alts[a], text)

\* Series.str.contains(pattern, case=False, na=False) for one cell
StrContains(cell, pattern) ==
    IF cell = None THEN FALSE ELSE RegexSearch(pattern, cell[1])

----------------------------------------------------------------------------
(* Collaborator replies *)

WS == [kind |-> "ws"]
FenceJson == [kind |-> "fence_json"]
Fence == [kind |-> "fence"]
Word(s) == [kind |-> "text", value |-> s]
Json(v) == [kind |-> "json", value |-> v]

\* str.strip()
RECURSIVE LStrip(_)
LStrip(s) ==
    IF s # <<>> /\ Head(s).kind = "ws" THEN LStrip(Tail(s)) ELSE s

RECURSIVE RStrip(_)
RStrip(s) ==
    IF s # <<>> /\ s[Len(s)].kind = "ws"
    THEN RStrip(SubSeq(s, 1, Len(s) - 1)) ELSE s

Strip(s) == RStrip(LStrip(s))

IsFence(tok) == tok.kind \in {"fence_json", "fence"}

\* response.replace('```json', '').replace('```', '').strip()
CleanJson(content) == Strip(SelectSeq(content, LAMBDA tok : ~IsFence(tok)))

Raised == [raised |-> TRUE]
Returned(content) == [raised |-> FALSE, content |-> content]

----------------------------------------------------------------------------
(* app.py: get_query_params *)

DefaultParams == [operation |-> "list", category |-> "all"]

\* a planner that takes the first JSON document it finds in the reply
get_query_params_lenient(r) ==
    IF r.raised THEN DefaultParams
    ELSE LET found == SelectSeq(r.content, LAMBDA tok : tok.kind = "json")
         IN IF found = <<>> THEN DefaultParams ELSE found[1].value

get_query_params(r) ==
    IF r.raised THEN DefaultParams                      \* except Exception
    ELSE LET clean_json == CleanJson(r.content)
         IN IF clean_json = <<>> THEN DefaultParams     \* if not clean_json
            ELSE IF Len(clean_json) = 1 /\ clean_json[1].kind = "json"
                 THEN clean_json[1].value               \* json.loads
                 ELSE DefaultParams                     \* JSONDecodeError

----------------------------------------------------------------------------
(* app.py: execute_query *)

Row(cif, cat, date, subheader, notes, amount) ==
    [cif |-> cif, category_by_system |-> cat, trx_date |-> date,
     subheader |-> subheader, notes |-> notes, amount |-> amount]

\* Python truth of params.get("category_id"): None and 0 are false
CategoryGiven(p) ==
    Get(p, "category_id") # None /\ Get(p, "category_id")[1] # 0

CategoryStage(d, p) ==
    IF CategoryGiven(p)
    THEN SelectSeq(d, LAMBDA r : r.category_by_system = p.category_id[1])
    ELSE d

DatesGiven(p) == Get(p, "start_date") # None /\ Get(p, "end_date") # None

\* a date stage whose end bound is exclusive
DateStageExclusive(d, p) ==
    IF DatesGiven(p)
    THEN SelectSeq(d, LAMBDA r :
            /\ r.trx_date >= ToTimestamp(p.start_date[1])
            /\ r.trx_date < ToTimestamp(p.end_date[1]))
    ELSE d

DateStage(d, p) ==
    IF DatesGiven(p)
    THEN SelectSeq(d, LAMBDA r :
            /\ r.trx_date >= ToTimestamp(p.start_date[1])
            /\ r.trx_date <= ToTimestamp(p.end_date[1]))
    ELSE d

\* Python truth of params.get("search_terms"): None and [] are false
TermsGiven(p) == Get(p, "search_terms") # <<>>

TextMask(r, pattern) ==
    StrContains(r.subheader, pattern) \/ StrContains(r.notes, pattern)

TermStage(d, p) ==
    IF TermsGiven(p)
    THEN LET pattern == Join(p.search_terms)
         IN SelectSeq(d, LAMBDA r : TextMask(r, pattern))
    ELSE d

\* sort_values(by='trx_date', ascending=False): the default sort is not
\* stable, so rows of one date come out in an order the caller cannot rely
\* on; ties names the outcome
TieOrders == {"kept", "reversed"}

RECURSIVE InsertDesc(_, _, _)
InsertDesc(r, sorted, ties) ==
    IF sorted = <<>> THEN <<r>>
    ELSE IF \/ Head(sorted).trx_date > r.trx_date
            \/ (ties = "kept" /\ Head(sorted).trx_date = r.trx_date)
         THEN <<Head(sorted)>> \o InsertDesc(r, Tail(sorted), ties)
         ELSE <<r>> \o sorted

\* a sort that puts the oldest row first
RECURSIVE SortValuesAscending(_, _)
SortValuesAscending(d, ties) ==
    IF d = <<>> THEN <<>>
    ELSE LET rest == SortValuesAscending(SubSeq(d, 1, Len(d) - 1), ties)
             r == d[Len(d)]
             older == SelectSeq(rest, LAMBDA x : x.trx_date <= r.trx_date)
             newer == SelectSeq(rest, LAMBDA x : x.trx_date > r.trx_date)
         IN older \o <<r>> \o newer

RECURSIVE SortValues(_, _)
SortValues(d, ties) ==
    IF d = <<>> THEN <<>>
    ELSE InsertDesc(d[Len(d)], SortValues(SubSeq(d, 1, Len(d) - 1), ties), ties)

\* relevant_df[available_cols]: the reduced column set
Project(r) ==
    [trx_date |-> r.trx_date, subheader |-> r.subheader, notes |-> r.notes,
     amount |-> r.amount]

ToDict(d) == [i \in 1..Len(d) |-> Project(d[i])]

\* DataFrame.head(n)
HeadRows(d, n) == SubSeq(d, 1, Min(n, Len(d)))

\* the sample: line 127 takes head(10) when more than 10 rows match, and
\* line 128 then assigns all rows whatever line 127 did
RecentTransactions(relevant_df) ==
    LET line127 == IF Len(relevant_df) > SampleLimit
                   THEN Some(ToDict(HeadRows(relevant_df, SampleLimit)))
                   ELSE None
        line128 == ToDict(relevant_df)
    IN line128

RECURSIVE SumAmount(_)
SumAmount(d) == IF d = <<>> THEN 0 ELSE Head(d).amount + SumAmount(Tail(d))

\* a total taken over the sampled rows only
TotalSpendSampled(relevant_df) == SumAmount(HeadRows(relevant_df, SampleLimit))

\* relevant_df['amount'].sum()
TotalSpend(relevant_df) == SumAmount(relevant_df)

\* relevant_df after the category, date and search-term stage and the sort
ExecuteStages(d, p, ties) ==
    LET by_category == CategoryStage(d, p)
        by_date == DateStage(by_category, p)
        by_terms == TermStage(by_date, p)
    IN [category |-> by_category, date |-> by_date, terms |-> by_terms,
        sorted |-> SortValues(by_terms, ties)]

execute_query(user_name, user_lang, d, p, ties) ==
    LET relevant_df == ExecuteStages(d, p, ties).sorted
    IN [user_name |-> user_name,
        user_lang |-> user_lang,
        total_spend |-> TotalSpend(relevant_df),
        transaction_count |-> Len(relevant_df),
        transaction_data |-> RecentTransactions(relevant_df)]

----------------------------------------------------------------------------
(* The query pipeline on its own: get_query_params, then execute_query,    *)
(* over ledgers and collaborator replies drawn from bounded sets           *)

Ab == <<"A", "B">>

\* the rows a ledger is made of: they differ from the first one in
\* category, in date (the day before a window, its last day, the day after)
\* or in text, and stand in no order of date
RowUniverse ==
    <<Row(111, 3, ToTimestamp(Date(2024, 2, 28)), Some(Ab), None, 5),
      Row(111, 3, ToTimestamp(Date(2024, 3, 2)), Some(Ab), None, 12),
      Row(111, 0, ToTimestamp(Date(2024, 2, 28)), Some(Ab), None, 7),
      Row(111, 3, ToTimestamp(Date(2024, 2, 27)), Some(Ab), None, 37),
      Row(111, 3, ToTimestamp(Date(2024, 2, 28)), None, None, 19),
      Row(111, 3, ToTimestamp(Date(2024, 3, 1)), Some(Ab), None, 11),
      Row(111, 3, ToTimestamp(Date(2024, 2, 28)), None, Some(<<"b">>), 20)>>

Reverse(seq) == [i \in 1..Len(seq) |-> seq[Len(seq) + 1 - i]]

\* the rows of the universe whose positions are in S, in file order
PickRows(S) ==
    LET F[i \in 0..Len(RowUniverse)] ==
            IF i = 0 THEN <<>>
            ELSE IF i \in S THEN Append(F[i - 1], RowUniverse[i]) ELSE F[i - 1]
    IN F[Len(RowUniverse)]

BaseLedgers ==
    {PickRows(S) : S \in SUBSET (1..Len(RowUniverse))}
        \cup {Reverse(PickRows(S)) : S \in SUBSET (1..Len(RowUniverse))}

ExampleLedger ==
    <<Row(111, 2, ToTimestamp(Date(2024, 1, 5)), Some(Ab), None, 50000),
      Row(111, 2, ToTimestamp(Date(2024, 2, 10)), Some(Ab), None, 75000),
      Row(111, 2, ToTimestamp(Date(2024, 3, 1)), Some(Ab), None, 20000)>>

Ledgers ==
    {Repeat(base, k) : base \in BaseLedgers, k \in {1, MaxCopies}}
        \cup {ExampleLedger}

Terms == {<<"a", "b">>, <<".">>}

TermLists == UNION {[1..n -> Terms] : n \in 0..MaxTerms}

DateBounds ==
    {<<>>,
     [start_date |-> Some(Date(2024, 2, 28))],
     [end_date |-> Some(Date(2024, 3, 1))],
     [start_date |-> Some(Date(2024, 2, 28)),
      end_date |-> Some(Date(2024, 3, 1))]}

ExampleParams ==
    [operation |-> "sum", category_id |-> Some(2), search_terms |-> <<>>,
     start_date |-> Some(Date(2024, 1, 1)),
     end_date |-> Some(Date(2024, 2, 28))]

ParamSet ==
    {[operation |-> "sum", category_id |-> c, search_terms |-> t] @@ b :
        c \in {None, Some(0), Some(3), Some(4)}, t \in TermLists,
        b \in DateBounds}
    \cup {ExampleParams}

\* replies that json.loads accepts
JsonReplies ==
    {Returned(<<FenceJson, WS, Json(p), WS, Fence>>) :
        p \in ParamSet \cup {JsonArray}}

\* replies that end in the fallback
FailingReplies ==
    {Raised,
     Returned(<<>>),
     Returned(<<FenceJson, WS, Fence, WS>>),
     Returned(<<Word("Sorry"), WS, Json(ExampleParams)>>)}

PlannerReplies == JsonReplies \cup FailingReplies

NoContext == [user_name |-> "", user_lang |-> "", total_spend |-> 0,
              transaction_count |-> 0, transaction_data |-> <<>>]
NoStages == [category |-> <<>>, date |-> <<>>, terms |-> <<>>,
             sorted |-> <<>>]

UiIdle ==
    /\ cif_id = ""
    /\ session_state = <<>>
    /\ prompt = ""
    /\ validation = <<>>
    /\ full_response = <<>>
    /\ calls = <<>>
    /\ before = <<>>
    /\ outcome = "none"

QueryInit ==
    /\ df \in Ledgers
    /\ reply \in PlannerReplies
    /\ params = DefaultParams
    /\ context = NoContext
    /\ stages = NoStages
    /\ pc = "plan"
    /\ UiIdle

QueryPlan ==
    /\ pc = "plan"
    /\ params' = get_query_params(reply)
    /\ pc' = "execute"
    /\ UNCHANGED <<df, reply, context, stages, uiVars>>

QueryExecute ==
    /\ pc = "execute"
    /\ IsDict(params)
    /\ \E ties \in TieOrders :
        /\ stages' = ExecuteStages(df, params, ties)
        /\ context' = execute_query("Valued Customer", "en", df, params, ties)
    /\ pc' = "done"
    /\ UNCHANGED <<df, reply, params, uiVars>>

\* params.get on a value that is no dict: AttributeError
QueryExecuteRaises ==
    /\ pc = "execute"
    /\ ~IsDict(params)
    /\ pc' = "raised"
    /\ UNCHANGED <<df, reply, params, context, stages, uiVars>>

QueryNext == QueryPlan \/ QueryExecute \/ QueryExecuteRaises

SpecQuery == QueryInit /\ [][QueryNext]_vars

----------------------------------------------------------------------------
(* prefilter.py *)

\* load_data("resources/transactions.csv"): the ledger of all customers
RawLedger ==
    <<Row(111, 1, ToTimestamp(Date(2024, 1, 5)), Some(Ab), None, 100),
      Row(222, 2, ToTimestamp(Date(2024, 1, 6)), None, Some(<<"b">>), 200),
      Row(111, 3, ToTimestamp(Date(2024, 1, 7)), Some(<<"b">>), None, 300)>>

\* load_data("resources/customer_profiles.csv"); preferences is the parsed
\* JSON blob, None when it is no JSON
Profiles ==
    <<[cif |-> 111, customer_name |-> "Ani",
       preferences |-> Some([language |-> "id"])],
      [cif |-> 222, customer_name |-> "Budi",
       preferences |-> Some([theme |-> "dark"])]>>

filter_by_cif(d, cif) == SelectSeq(d, LAMBDA r : ToString(r.cif) = cif)

get_customer_details(cif, profile_df) ==
    LET user_profile == filter_by_cif(profile_df, cif)
    IN IF user_profile = <<>> THEN <<"Valued Customer", "en">>
       ELSE IF user_profile[1].preferences = None
            THEN <<"Valued Customer", "en">>            \* except Exception
            ELSE <<user_profile[1].customer_name,
                   IF "language" \in DOMAIN user_profile[1].preferences[1]
                   THEN user_profile[1].preferences[1].language ELSE "en">>

\* the unique subheaders and notes of every category id of a customer
get_category_descriptors(d) ==
    LET ids == {d[i].category_by_system : i \in 1..Len(d)}
    IN [id \in ids |->
          [subheaders |-> {d[i].subheader : i \in
                             {j \in 1..Len(d) : d[j].category_by_system = id}},
           notes |-> {d[i].notes : i \in
                             {j \in 1..Len(d) : d[j].category_by_system = id}}]]

\* the collaborator's outcomes for get_custom_category_list: it fails, or it
\* labels the descriptors it was given
CategoryReplies(d) ==
    {Raised, Returned(<<Word(get_category_descriptors(d)), WS>>)}

get_custom_category_list(r) == Strip(r.content)

----------------------------------------------------------------------------
(* ui.py: one run of the script per user action *)

CifInputs == {"", "111", "222", "444"}
Queries == {"q1", "q2"}

VALID == <<Word("VALID")>>

ValidatorReplies ==
    {Raised,
     Returned(<<WS, Word("VALID"), WS>>),
     Returned(<<Word("Sorry"), WS>>)}

UiPlannerReplies ==
    {Raised,
     Returned(<<FenceJson, Json([operation |-> "sum", category_id |-> Some(1),
                                 search_terms |-> <<>>]), Fence>>),
     Returned(<<Json(JsonArray)>>)}

RendererReplies == {Raised, Returned(<<WS, Word("Answer")>>)}

Has(key) == key \in DOMAIN session_state

Put(ss, key, value) == (key :> value) @@ ss

Message(role, content) == [role |-> role, content |-> content]

\* lines 22-58: the sidebar block, run at the top of every script run
Sidebar(ss, cif, r) ==
    LET user_df == filter_by_cif(RawLedger, cif)
        details == get_customer_details(cif, Profiles)
        named == IF "user_name" \notin DOMAIN ss \/ "user_lang" \notin DOMAIN ss
                 THEN Put(Put(ss, "user_name", details[1]),
                          "user_lang", details[2])
                 ELSE ss
    IN IF cif = "" \/ user_df = <<>>
       THEN [ss |-> ss, raised |-> FALSE]
       ELSE IF "category_list" \in DOMAIN named
            THEN [ss |-> named, raised |-> FALSE]
            ELSE IF r.raised
                 THEN [ss |-> named, raised |-> TRUE]
                 ELSE [ss |-> Put(Put(Put(named,
                                 "category_list", get_custom_category_list(r)),
                                 "current_cif", cif),
                                 "user_df", user_df),
                       raised |-> FALSE]

\* lines 68-74: the chat area is reached with a customer who has
\* transactions, and the history is created on the first visit
ChatReached(cif) == cif # "" /\ filter_by_cif(RawLedger, cif) # <<>>

InitMessages(ss, cif) ==
    IF ChatReached(cif) /\ "messages" \notin DOMAIN ss
    THEN Put(ss, "messages", <<>>) ELSE ss

ResetLocals ==
    /\ prompt' = ""
    /\ validation' = <<>>
    /\ full_response' = <<>>
    /\ calls' = <<>>
    /\ before' = <<>>
    /\ params' = DefaultParams
    /\ context' = NoContext
    /\ stages' = NoStages

\* the widgets of the page are those the last run drew: a run that raised in
\* the sidebar drew neither the reset button nor the chat input
SidebarDrawn == outcome # "taxonomy_error"

UiInit ==
    /\ df = <<>>
    /\ reply = Raised
    /\ params = DefaultParams
    /\ context = NoContext
    /\ stages = NoStages
    /\ pc = "idle"
    /\ UiIdle

\* the user types a customer identifier into the sidebar
EnterCif ==
    /\ pc = "idle"
    /\ \E c \in CifInputs \ {cif_id} :
       \E r \in CategoryReplies(filter_by_cif(RawLedger, c)) :
        LET side == Sidebar(session_state, c, r)
        IN /\ cif_id' = c
           /\ session_state' = IF side.raised THEN side.ss
                               ELSE InitMessages(side.ss, c)
           /\ outcome' = IF side.raised THEN "taxonomy_error" ELSE "ok"
    /\ ResetLocals
    /\ UNCHANGED <<df, reply, pc>>

\* the user presses "Reset Session": the run clears the history and reruns
ResetSession ==
    /\ pc = "idle"
    /\ SidebarDrawn
    /\ \E r \in CategoryReplies(filter_by_cif(RawLedger, cif_id)) :
        LET side == Sidebar(session_state, cif_id, r)
        IN /\ session_state' = IF side.raised THEN side.ss
                               ELSE Put(side.ss, "messages", <<>>)
           /\ outcome' = IF side.raised THEN "taxonomy_error" ELSE "ok"
    /\ ResetLocals
    /\ UNCHANGED <<df, reply, pc, cif_id>>

\* the user sends a chat input: line 83 appends it to the history
SubmitPrompt ==
    /\ pc = "idle"
    /\ SidebarDrawn
    /\ ChatReached(cif_id)
    /\ Has("messages") => Len(session_state.messages) < MaxMessages
    /\ \E q \in Queries :
       \E r \in CategoryReplies(filter_by_cif(RawLedger, cif_id)) :
        LET side == Sidebar(session_state, cif_id, r)
            ready == InitMessages(side.ss, cif_id)
        IN IF side.raised
           THEN /\ session_state' = side.ss
                /\ outcome' = "taxonomy_error"
                /\ ResetLocals
                /\ pc' = "idle"
           ELSE /\ session_state' =
                    Put(ready, "messages",
                        Append(ready.messages, Message("user", q)))
                /\ before' = ready
                /\ prompt' = q
                /\ outcome' = "running"
                /\ pc' = "validate"
                /\ validation' = <<>>
                /\ full_response' = <<>>
                /\ calls' = <<>>
                /\ params' = DefaultParams
                /\ context' = NoContext
                /\ stages' = NoStages
    /\ UNCHANGED <<df, reply, cif_id>>

Call(fn, ret) == [fn |-> fn, ret |-> ret]

\* line 126
AppendAssistant(text) ==
    session_state' =
        Put(session_state, "messages",
            Append(session_state.messages, Message("assistant", text)))

\* an exception ends the script run where it is raised
Abort(how) ==
    /\ pc' = "idle"
    /\ outcome' = how

\* app.py: validate_query returns the stripped reply
validate_query(r) == Strip(r.content)

\* a gate that lets every validator text through to the planner
RejectedNever(v) == FALSE

\* line 91
Rejected(v) == v # VALID

ValidateRaises ==
    /\ pc = "validate"
    /\ Raised \in ValidatorReplies
    /\ Abort("collaborator_error")
    /\ UNCHANGED <<queryVars, cif_id, session_state, prompt, validation,
                   full_response, calls, before>>

ValidateRejects ==
    /\ pc = "validate"
    /\ \E r \in ValidatorReplies :
        /\ ~r.raised
        /\ Rejected(validate_query(r))
        /\ validation' = validate_query(r)
        /\ calls' = Append(calls, Call("validate_query", validate_query(r)))
        /\ full_response' = validate_query(r)
        /\ AppendAssistant(validate_query(r))
    /\ pc' = "idle"
    /\ outcome' = "completed"
    /\ UNCHANGED <<queryVars, cif_id, prompt, before>>

ValidateAccepts ==
    /\ pc = "validate"
    /\ \E r \in ValidatorReplies :
        /\ ~r.raised
        /\ ~Rejected(validate_query(r))
        /\ validation' = validate_query(r)
        /\ calls' = Append(calls, Call("validate_query", validate_query(r)))
    /\ pc' = "plan_turn"
    /\ UNCHANGED <<df, reply, params, context, stages, cif_id, session_state,
                   prompt, full_response, before, outcome>>

\* line 99: the planner never raises
PlanTurn ==
    /\ pc = "plan_turn"
    /\ \E r \in UiPlannerReplies :
        /\ params' = get_query_params(r)
        /\ calls' = Append(calls, Call("get_query_params", get_query_params(r)))
    /\ pc' = "execute_turn"
    /\ UNCHANGED <<df, reply, context, stages, cif_id, session_state, prompt,
                   validation, full_response, before, outcome>>

\* line 102
ExecuteTurn ==
    /\ pc = "execute_turn"
    /\ IsDict(params)
    /\ \E ties \in TieOrders :
        LET result == execute_query(session_state.user_name,
                                    session_state.user_lang,
                                    session_state.user_df, params, ties)
        IN /\ context' = result
           /\ stages' = ExecuteStages(session_state.user_df, params, ties)
           /\ calls' = Append(calls, Call("execute_query", result))
    /\ pc' = "render"
    /\ UNCHANGED <<df, reply, params, cif_id, session_state, prompt,
                   validation, full_response, before, outcome>>

ExecuteTurnRaises ==
    /\ pc = "execute_turn"
    /\ ~IsDict(params)
    /\ Abort("error")
    /\ UNCHANGED <<queryVars, cif_id, session_state, prompt, validation,
                   full_response, calls, before>>

\* app.py: generate_final_response returns the stripped reply
generate_final_response(r) == Strip(r.content)

RenderRaises ==
    /\ pc = "render"
    /\ Raised \in RendererReplies
    /\ Abort("collaborator_error")
    /\ UNCHANGED <<queryVars, cif_id, session_state, prompt, validation,
                   full_response, calls, before>>

\* lines 105-126
RenderTurn ==
    /\ pc = "render"
    /\ \E r \in RendererReplies :
        /\ ~r.raised
        /\ full_response' = generate_final_response(r)
        /\ calls' = Append(calls, Call("generate_final_response",
                                       generate_final_response(r)))
        /\ AppendAssistant(generate_final_response(r))
    /\ pc' = "idle"
    /\ outcome' = "completed"
    /\ UNCHANGED <<queryVars, cif_id, prompt, validation, before>>

Next ==
    \/ EnterCif
    \/ ResetSession
    \/ SubmitPrompt
    \/ ValidateRaises
    \/ ValidateRejects
    \/ ValidateAccepts
    \/ PlanTurn
    \/ ExecuteTurn
    \/ ExecuteTurnRaises
    \/ RenderRaises
    \/ RenderTurn

Spec == UiInit /\ [][Next]_vars

----------------------------------------------------------------------------
(* Properties of the query pipeline (SpecQuery) *)

Done == pc = "done"

CountWhere(seq, Test(_)) == Cardinality({i \in 1..Len(seq) : Test(seq[i])})

\* a row passes the three stages of the filter specification p
RowPasses(r, p) ==
    /\ CategoryGiven(p) => r.category_by_system = p.category_id[1]
    /\ DatesGiven(p) => /\ ToTimestamp(p.start_date[1]) <= r.trx_date
                        /\ r.trx_date <= ToTimestamp(p.end_date[1])
    /\ TermsGiven(p) => TextMask(r, Join(p.search_terms))

RECURSIVE SumOver(_, _)
SumOver(d, S) ==
    IF S = {} THEN 0
    ELSE LET i == CHOOSE j \in S : TRUE
         IN d[i].amount + SumOver(d, S \ {i})

\* C1: when execute_query finds N matching records, the sample
\* (transaction_data) has exactly min(N, 10) records, so never more than 10.
C1_SampleSize ==
    Done => Len(context.transaction_data)
                = Min(context.transaction_count, SampleLimit)

\* C2: total_spend is the sum of the amounts of all records that pass the
\* category, date and search-term stages and transaction_count is their
\* number, over every matching record and not only the sampled ones.
C2_AggregateOverAllMatches ==
    Done =>
        LET matching == {i \in 1..Len(df) : RowPasses(df[i], params)}
        IN /\ context.total_spend = SumOver(df, matching)
           /\ context.transaction_count = Cardinality(matching)

C2_Witness ==
    /\ Done
    /\ context.transaction_count > SampleLimit
    /\ context.transaction_count < Len(df)
    /\ context.total_spend > 0

\* C3: when the collaborator's reply to get_query_params is empty after the
\* fences are stripped, is no parsable JSON, or the call raises,
\* get_query_params does not raise and returns exactly
\* {operation: "list", category: "all"}; execute_query with it filters
\* nothing, so count and total are those of the whole ledger.
C3_FailOpen ==
    reply \in FailingReplies =>
        /\ pc # "raised"
        /\ pc # "plan" =>
            /\ params = [operation |-> "list", category |-> "all"]
            /\ DOMAIN params = {"operation", "category"}
        /\ Done =>
            /\ context.transaction_count = Len(df)
            /\ context.total_spend = SumOver(df, 1..Len(df))
            /\ stages.terms = df

C3_Witness ==
    /\ Done
    /\ reply = Returned(<<FenceJson, WS, Fence, WS>>)
    /\ Len(df) > SampleLimit
    /\ context.transaction_count = Len(df)

\* C5: for every integer category_id present in the specification only the
\* records whose category identifier equals it pass the category stage; when
\* category_id is absent every record passes.
C5_CategoryStage ==
    Done =>
        stages.category =
            IF Get(params, "category_id") # None
            THEN SelectSeq(df, LAMBDA r :
                    r.category_by_system = params.category_id[1])
            ELSE df

\* C6: when start_date and end_date are both present a record passes the
\* date stage exactly when start_date <= its date <= end_date: a record dated
\* on start_date or on end_date is kept and one a day before start_date or a
\* day after end_date is dropped; when either bound is absent the stage
\* removes nothing.
C6_DateStage ==
    Done =>
        IF Get(params, "start_date") # None /\ Get(params, "end_date") # None
        THEN LET first == ToTimestamp(params.start_date[1])
                 last == ToTimestamp(params.end_date[1])
                 Kept(r) == \E i \in 1..Len(stages.date) : stages.date[i] = r
             IN /\ \A i \in 1..Len(stages.category) :
                     LET r == stages.category[i]
                     IN /\ r.trx_date \in {first, last} => Kept(r)
                        /\ r.trx_date \in {first - 1, last + 1} => ~Kept(r)
                        /\ Kept(r) <=> (first <= r.trx_date /\ r.trx_date <= last)
                /\ \A d \in {stages.category[i].trx_date :
                                i \in 1..Len(stages.category)} :
                     CountWhere(stages.date, LAMBDA r : r.trx_date = d)
                        = IF first <= d /\ d <= last
                          THEN CountWhere(stages.category,
                                          LAMBDA r : r.trx_date = d)
                          ELSE 0
                /\ Len(stages.date) <= Len(stages.category)
        ELSE stages.date = stages.category

C6_Witness ==
    /\ Done
    /\ DatesGiven(params)
    /\ \E i \in 1..Len(stages.date) :
            stages.date[i].trx_date = ToTimestamp(params.end_date[1])
    /\ \E i \in 1..Len(stages.date) :
            stages.date[i].trx_date = ToTimestamp(params.start_date[1])
    /\ \E i \in 1..Len(stages.category) :
            stages.category[i].trx_date = ToTimestamp(params.end_date[1]) + 1
    /\ \E i \in 1..Len(stages.category) :
            stages.category[i].trx_date = ToTimestamp(params.start_date[1]) - 1

\* C9: the sample is ordered by transaction date, most recent first, and
\* holds the most recent matching records: no matching record left out of it
\* is dated later than a record in it. For the ledger of three category-2
\* records dated 2024-01-05, 2024-02-10, 2024-03-01 with amounts 50000,
\* 75000, 20000 and the specification {category_id: 2, start_date:
\* 2024-01-01, end_date: 2024-02-28, search_terms: []} the result is
\* count = 2, total = 125000, sample = [2024-02-10 row, 2024-01-05 row].
C9_MostRecentFirst ==
    Done =>
        LET sample == context.transaction_data
            matching == SelectSeq(df, LAMBDA r : RowPasses(r, params))
        IN /\ \A i, j \in 1..Len(sample) :
                i < j => sample[i].trx_date >= sample[j].trx_date
           /\ \A i \in 1..Len(sample) :
                CountWhere(sample, LAMBDA x : x = sample[i])
                    <= CountWhere(matching, LAMBDA r : Project(r) = sample[i])
           /\ \A i \in 1..Len(matching) :
                CountWhere(sample,
                           LAMBDA x : x.trx_date >= matching[i].trx_date)
                    = Min(Len(sample),
                          CountWhere(matching, LAMBDA r :
                                r.trx_date >= matching[i].trx_date))
           /\ (df = ExampleLedger /\ params = ExampleParams) =>
                /\ context.transaction_count = 2
                /\ context.total_spend = 125000
                /\ sample = <<Project(ExampleLedger[2]),
                              Project(ExampleLedger[1])>>

C9_Witness ==
    /\ Done
    /\ df = ExampleLedger
    /\ params = ExampleParams
    /\ Len(context.transaction_data) = 2
    /\ context.transaction_data[1].amount = 75000

\* a term occurs in a text as a plain substring, compared case-insensitively
LiteralFound(term, text) ==
    \E start \in 0..(Len(text) - Len(term)) :
        \A i \in 1..Len(term) : Lower(term[i]) = Lower(text[start + i])

LiteralInCell(term, cell) == cell # None /\ LiteralFound(term, cell[1])

\* C10: with search_terms non-empty a record passes the search-term stage
\* exactly when at least one term occurs, case-insensitively and as a plain
\* substring, in its subheader or notes; a term is literal text, so no term
\* content makes a record pass that contains none of the terms; with
\* search_terms empty or absent the stage removes nothing.
C10_LiteralTerms ==
    Done =>
        stages.terms =
            IF Get(params, "search_terms") # <<>>
            THEN SelectSeq(stages.date, LAMBDA r :
                    \E t \in 1..Len(params.search_terms) :
                        \/ LiteralInCell(params.search_terms[t], r.subheader)
                        \/ LiteralInCell(params.search_terms[t], r.notes))
            ELSE stages.date

----------------------------------------------------------------------------
(* Properties of the chat session (Spec) *)

Pipeline == <<"validate_query", "get_query_params", "execute_query",
              "generate_final_response">>

\* C4: when a collaborator call fails during a chat turn (in the validator
\* or in the renderer) the conversation state is as it was before the turn's
\* input was accepted: same history, ledger, taxonomy and customer.
C4_StatePreserved ==
    outcome = "collaborator_error" => session_state = before

\* C7: the stages of a turn run in the order validator, planner, executor,
\* renderer; when the trimmed validator text is "VALID" the other three run
\* once each and the renderer's text is the assistant message, and for any
\* other text none of them is called and the validator's text is the
\* assistant message; a completed turn adds one user message followed by one
\* assistant message to the history.
C7_StageOrder ==
    /\ [i \in 1..Len(calls) |-> calls[i].fn] = SubSeq(Pipeline, 1, Len(calls))
    /\ Len(calls) >= 2 => calls[1].ret = VALID
    /\ outcome = "completed" =>
        /\ Len(calls) >= 1
        /\ IF calls[1].ret = VALID
           THEN Len(calls) = 4 /\ full_response = calls[4].ret
           ELSE Len(calls) = 1 /\ full_response = calls[1].ret
        /\ session_state.messages =
                before.messages \o <<Message("user", prompt),
                                     Message("assistant", full_response)>>

C7_Witness ==
    /\ outcome = "completed"
    /\ Len(calls) = 4
    /\ calls[1].ret = VALID
    /\ before.messages # <<>>
    /\ Len(session_state.messages) = Len(before.messages) + 2

\* C8: the ledger, the taxonomy, the display name and the language held in
\* the session and used by a chat turn belong to the customer identifier
\* that is currently entered.
C8_SessionOfCurrentCustomer ==
    pc # "idle" =>
        LET own == filter_by_cif(RawLedger, cif_id)
            details == get_customer_details(cif_id, Profiles)
        IN /\ session_state.user_df = own
           /\ session_state.user_name = details[1]
           /\ session_state.user_lang = details[2]
           /\ session_state.category_list
                = <<Word(get_category_descriptors(own))>>
           /\ session_state.current_cif = cif_id

====
